---- MODULE Spec2Model ----
(***************************************************************************)
(* Token-lifecycle core of the Google Drive tools: the AuthManager family  *)
(* (agent_ready_tools/clients/auth_manager.py) and the re-auth retry loop  *)
(* of GoogleClient (agent_ready_tools/clients/google_client.py).           *)
(*                                                                         *)
(* Python values are modelled as tagged tuples: None is <<"NoneType">>, a  *)
(* str s is <<"str", s>>.  A call's outcome is a record: kind "return"     *)
(* with the value, or kind "raise" with the exception's class name.        *)
(***************************************************************************)
EXTENDS Integers, Sequences, FiniteSets, TLC

\* ------------------------------------------------------------- bounds
\* Number of distinct non-empty token strings that callers and servers use.
MaxTok == 1

\* ------------------------------------------------------ Python values
None == <<"NoneType">>

Str(s) == <<"str", s>>

\* str(x): str(None) is the four-letter string "None".
PyStr(v) == IF v = None THEN Str("None") ELSE v

\* bool(x) for None and str: None and "" are falsy.
Truthy(v) == v # None /\ v # Str("")

\* dict.get(key): the value, or None when the key is missing.
PyGet(d, key) == IF key \in DOMAIN d THEN d[key] ELSE None

\* A name or field that holds nothing (never assigned, not applicable).
Unset == <<"unset">>

Return(v) == [kind |-> "return", value |-> v]

Raise(e) == [kind |-> "raise", value |-> Str(e)]

TokenPool == <<"tokA", "tokB", "tokC", "tokD">>

\* Non-empty token strings a token endpoint mints.
TokenStrings == {TokenPool[i] : i \in 1..MaxTok}

\* Token values a server or a caller of update can supply: a token or "".
StrTokens == {Str(t) : t \in TokenStrings \cup {""}}

\* Constructor arguments (annotated str; nothing validates them): the
\* credential the connection holds, the empty string, or None.
InitialTokens == {Str("init0"), Str(""), None}

\* --------------------------------------------------------- file system
\* The cache directory /shared-data and the cache files in it.  A file is
\* absent, holds the JSON text of a dict, or holds text json.load rejects
\* (truncated by a failed write, or unreadable).
FileAbsent == <<"absent">>

FileGarbage == <<"garbage">>

\* json.dump(d, f) / response text of a JSON object
JsonDump(d) == <<"json", d>>

\* json.load(f) / response.json()
JsonLoad(text) ==
    IF text[1] = "json" THEN Return(text[2]) ELSE Raise("JSONDecodeError")

CacheFiles == {"google_auth.json", "hubspot_auth.json", "token_cache.json"}

DirStates == {"missing", "readonly", "writable"}

\* Path.is_file()
IsFile(fsys, path) == fsys.dir # "missing" /\ fsys.files[path] # FileAbsent

\* Outcomes of mkdir + open(path, "w") + json.dump on the current file system:
\* everything succeeds, mkdir/open raises (nothing written), or the dump
\* raises after open truncated the file.  A file cannot be created in a
\* read-only directory.
WriteOutcomes(fsys, path) ==
    IF fsys.dir = "readonly" /\ fsys.files[path] = FileAbsent
    THEN {"open_error"}
    ELSE {"ok", "open_error", "dump_error"}

\* creds_path.parent.mkdir(parents=True, exist_ok=True); open(.., "w"); json.dump
WriteCacheFile(fsys, path, creds, io) ==
    CASE io = "open_error" -> fsys
      [] io = "dump_error" ->
            [dir |-> IF fsys.dir = "missing" THEN "writable" ELSE fsys.dir,
             files |-> [fsys.files EXCEPT ![path] = FileGarbage]]
      [] OTHER ->
            [dir |-> IF fsys.dir = "missing" THEN "writable" ELSE fsys.dir,
             files |-> [fsys.files EXCEPT ![path] = JsonDump(creds)]]

\* ------------------------------------------------------ sandbox check
\* os.getcwd() is modelled as the sequence of pieces the path is cut into at
\* the occurrences of the marker, so that "substr in path" is "substr is one
\* of the pieces".
HomeCwd == <<"/home/app">>

SandboxCwd == <<"/tmp/", "pants-sandbox", "-Ab12Cd/run">>

Cwds == {HomeCwd, SandboxCwd}

\* self.pants_sandbox_substr = "pants-sandbox"
pants_sandbox_substr == "pants-sandbox"

\* A check that never recognises the sandbox.
InPantsSandboxNever(dir) == FALSE

\* self.pants_sandbox_substr in os.getcwd()
InPantsSandbox(dir) == \E i \in 1..Len(dir) : dir[i] = pants_sandbox_substr

\* PANTS_VERSION = "PANTS_VERSION" (credentials.py)
PANTS_VERSION == "PANTS_VERSION"

\* os.environ, as the set of the names it holds: with or without the marker
\* the pants launcher sets.
Environs == {{}, {PANTS_VERSION}}

\* utils/env.py in_pants_env
in_pants_env(env, dir) == PANTS_VERSION \in env \/ InPantsSandbox(dir)

\* utils/credentials.py _in_pants_sandbox: the test of the local branch of
\* get_tool_credentials.
_in_pants_sandbox(env) == PANTS_VERSION \in env

\* --------------------------------------------------------- AuthManager
Classes == {"AuthManager", "GoogleAuthManager", "HubSpotAuthManager"}

\* token_cache_file each subclass passes to the base constructor; the base
\* class takes it from its caller.
TokenCacheFile(cls) ==
    CASE cls = "GoogleAuthManager" -> "google_auth.json"
      [] cls = "HubSpotAuthManager" -> "hubspot_auth.json"
      [] OTHER -> "token_cache.json"

\* AuthManager.__init__: the attributes the constructor assigns.  The
\* assignments of initial_bearer_token and initial_refresh_token are
\* commented out in the source, so the instance has no such attributes.
\* probe_error: os.access / is_dir raised OSError (caught).
AuthManager__init__(cls, initial_bearer_token, initial_refresh_token, fsys, probe_error) ==
    [class |-> cls,
     bearer_token_resp_key |-> "access_token",
     refresh_token_resp_key |-> "refresh_token",
     _in_memory_bearer_token |-> initial_bearer_token,
     _in_memory_refresh_token |-> initial_refresh_token,
     creds_path |-> TokenCacheFile(cls),
     _can_write_to_cache |-> (~probe_error /\ fsys.dir = "writable")]

\* Attribute lookup self.<name>: AttributeError when never assigned.
GetAttr(self, name) ==
    IF name \in DOMAIN self THEN Return(self[name]) ELSE Raise("AttributeError")

\* A lookup that falls back to the cache file for a token that memory does
\* not hold, without asking whether the directory was found writable.
_get_cred_from_server_cache_reads_disk(self, key, fsys) ==
    LET mem == IF key = self.bearer_token_resp_key THEN self._in_memory_bearer_token
               ELSE IF key = self.refresh_token_resp_key THEN self._in_memory_refresh_token
               ELSE None
        d == JsonLoad(fsys.files[self.creds_path])
    IN  IF mem # None THEN mem
        ELSE IF IsFile(fsys, self.creds_path) /\ d.kind = "return"
             THEN PyGet(d.value, key) ELSE None

\* AuthManager._get_cred_from_server_cache
_get_cred_from_server_cache(self, key, fsys) ==
    IF key = self.bearer_token_resp_key THEN self._in_memory_bearer_token
    ELSE IF key = self.refresh_token_resp_key THEN self._in_memory_refresh_token
    ELSE IF self._can_write_to_cache /\ IsFile(fsys, self.creds_path)
         THEN LET d == JsonLoad(fsys.files[self.creds_path])
              IN  IF d.kind = "return" THEN PyGet(d.value, key) ELSE None
         ELSE None

\* The update as it was before the in-memory fields were introduced (the
\* commented-out body): the file is written, the instance is left alone.
_update_server_creds_cache_disk_only(self, creds, fsys, io) ==
    [self |-> self,
     fs |-> IF self._can_write_to_cache
            THEN WriteCacheFile(fsys, self.creds_path, creds, io)
            ELSE fsys,
     outcome |-> Return(None)]

\* The update as its commented-out original wrote the file: without asking
\* whether the directory was found writable.
_update_server_creds_cache_always_writes(self, creds, fsys, io) ==
    [self |-> self,
     fs |-> WriteCacheFile(fsys, self.creds_path, creds, io),
     outcome |-> Return(None)]

\* The in-memory fields after the two assignments of the update.
AssignInMemory(self, creds) ==
    LET s1 == IF self.bearer_token_resp_key \in DOMAIN creds
              THEN [self EXCEPT !._in_memory_bearer_token = creds[self.bearer_token_resp_key]]
              ELSE self
    IN  IF self.refresh_token_resp_key \in DOMAIN creds
        THEN [s1 EXCEPT !._in_memory_refresh_token = creds[self.refresh_token_resp_key]]
        ELSE s1

\* An update whose disk write is not wrapped in try/except: a failing
\* mkdir/open/json.dump raises OSError out of the method.
_update_server_creds_cache_unguarded(self, creds, fsys, io) ==
    [self |-> AssignInMemory(self, creds),
     fs |-> IF self._can_write_to_cache
            THEN WriteCacheFile(fsys, self.creds_path, creds, io)
            ELSE fsys,
     outcome |-> IF self._can_write_to_cache /\ io # "ok"
                 THEN Raise("OSError") ELSE Return(None)]

\* AuthManager._update_server_creds_cache: the instance and the file system
\* after the call and the call's outcome.  `except Exception` around the
\* write catches every failure of mkdir, open and json.dump.
_update_server_creds_cache(self, creds, fsys, io) ==
    [self |-> AssignInMemory(self, creds),
     fs |-> IF self._can_write_to_cache
            THEN WriteCacheFile(fsys, self.creds_path, creds, io)
            ELSE fsys,
     outcome |-> Return(None)]

\* A get_bearer_token for which the persisted record is authoritative: the
\* file's access_token, when there is one, wins over memory.
get_bearer_token_disk_first(self, fsys) ==
    LET d == IF IsFile(fsys, self.creds_path)
             THEN JsonLoad(fsys.files[self.creds_path]) ELSE Raise("FileNotFoundError")
        from_disk == IF d.kind = "return" THEN PyGet(d.value, self.bearer_token_resp_key)
                     ELSE None
    IN  IF Truthy(from_disk) THEN Return(from_disk)
        ELSE IF Truthy(self._in_memory_bearer_token)
        THEN Return(self._in_memory_bearer_token)
        ELSE GetAttr(self, "initial_bearer_token")

\* AuthManager.get_bearer_token
get_bearer_token(self, fsys) ==
    IF Truthy(self._in_memory_bearer_token)
    THEN Return(self._in_memory_bearer_token)
    ELSE LET from_srv == _get_cred_from_server_cache(self, self.bearer_token_resp_key, fsys)
         IN  IF Truthy(from_srv) THEN Return(from_srv)
             ELSE GetAttr(self, "initial_bearer_token")

\* ------------------------------------------------------ token endpoint
\* What requests.post to the token URL yields: a ConnectionError raised by
\* the transport, or a response with a status code and a body.
TokenStatuses == {200, 308, 400}

TokenValues == StrTokens \cup {None}

\* JSON objects a token endpoint can answer: each of access_token and
\* refresh_token absent, null or a string.
TokenDicts ==
    UNION {[D -> TokenValues] : D \in SUBSET {"access_token", "refresh_token"}}

TokenBodies == {JsonDump(d) : d \in TokenDicts} \cup {FileGarbage}

HttpError == [kind |-> "error", status_code |-> 0, text |-> FileGarbage]

\* What a redirect status (3xx without a Location requests could follow)
\* carries: a page that is not JSON, or a token document relayed by a gateway.
RedirectBodies ==
    {FileGarbage} \cup
    {JsonDump(d) : d \in {t \in TokenDicts : DOMAIN t = {"access_token"}
                                             /\ Truthy(t["access_token"])}}

\* An error status carries an error document, never read by the callers.
TokenHttp ==
    {HttpError} \cup
    {[kind |-> "response", status_code |-> st, text |-> b] :
        st \in {x \in TokenStatuses : x < 300}, b \in TokenBodies} \cup
    {[kind |-> "response", status_code |-> st, text |-> b] :
        st \in {x \in TokenStatuses : x >= 300 /\ x < 400}, b \in RedirectBodies} \cup
    {[kind |-> "response", status_code |-> st, text |-> FileGarbage] :
        st \in {x \in TokenStatuses : x >= 400}}

\* A status check that lets client errors through.
raise_for_status_5xx_only(status_code) == status_code >= 500 /\ status_code < 600

\* requests.Response.raise_for_status: HTTPError for 4xx and 5xx.
raise_for_status(status_code) == status_code >= 400 /\ status_code < 600

\* self._get_cred_from_server_cache(self.refresh_token_resp_key)
\*     or self.initial_refresh_token
ResolveRefreshToken(self, fsys) ==
    LET c == _get_cred_from_server_cache(self, self.refresh_token_resp_key, fsys)
    IN  IF Truthy(c) THEN Return(c) ELSE GetAttr(self, "initial_refresh_token")

\* Result of a refresh call: instance and file system afterwards, the call's
\* outcome, the POSTs sent to the token endpoint and the dicts handed to
\* _update_server_creds_cache.
RefreshResult(self, fsys, outcome, posts, updates) ==
    [self |-> self, fs |-> fsys, outcome |-> outcome, posts |-> posts,
     updates |-> updates]

\* requests.post(...); response.raise_for_status(); resp = response.json():
\* the parsed body, or the exception one of the three raises.
PostOutcome(http) ==
    IF http.kind = "error" THEN Raise("ConnectionError")
    ELSE IF raise_for_status(http.status_code) THEN Raise("HTTPError")
    ELSE JsonLoad(http.text)

\* The end of each refresh once the POST was sent: an exception of the POST
\* or of the token extraction propagates; otherwise the tokens go to
\* self._update_server_creds_cache(tokens).
StoreTokens(self, fsys, io, post, tokens) ==
    IF tokens.kind = "raise"
    THEN RefreshResult(self, fsys, tokens, <<post>>, <<>>)
    ELSE LET u == _update_server_creds_cache(self, tokens.value, fsys, io)
         IN  RefreshResult(u.self, u.fs, u.outcome, <<post>>, <<tokens.value>>)

\* AuthManager.refresh_bearer_token (generic: Basic auth, form body)
AuthManager_refresh_bearer_token(self, fsys, dir, http, io) ==
    IF InPantsSandbox(dir)
    THEN RefreshResult(self, fsys, Return(None), <<>>, <<>>)
    ELSE LET refresh_token == ResolveRefreshToken(self, fsys)
             keys == {self.bearer_token_resp_key, self.refresh_token_resp_key}
             tokens_of(resp) ==
                 Return([key \in {k \in keys : PyGet(resp, k) # None} |-> PyStr(resp[key])])
         IN  IF refresh_token.kind = "raise"
             THEN RefreshResult(self, fsys, refresh_token, <<>>, <<>>)
             ELSE LET resp == PostOutcome(http)
                  IN  StoreTokens(self, fsys, io,
                          [refresh_token |-> refresh_token.value, basic_auth |-> TRUE],
                          IF resp.kind = "raise" THEN resp ELSE tokens_of(resp.value))

\* GoogleAuthManager.refresh_bearer_token (client id/secret in the body)
GoogleAuthManager_refresh_bearer_token(self, fsys, dir, http, io) ==
    IF InPantsSandbox(dir)
    THEN RefreshResult(self, fsys, Return(None), <<>>, <<>>)
    ELSE LET refresh_token == ResolveRefreshToken(self, fsys)
             tokens_of(resp) ==
                 IF self.bearer_token_resp_key \notin DOMAIN resp
                 THEN Raise("KeyError")
                 ELSE LET new_access_token == PyStr(resp[self.bearer_token_resp_key])
                          new_refresh_token ==
                              IF self.refresh_token_resp_key \in DOMAIN resp
                              THEN resp[self.refresh_token_resp_key]
                              ELSE refresh_token.value
                      IN  Return([k \in {self.bearer_token_resp_key, self.refresh_token_resp_key} |->
                                     IF k = self.bearer_token_resp_key
                                     THEN new_access_token ELSE new_refresh_token])
         IN  IF refresh_token.kind = "raise"
             THEN RefreshResult(self, fsys, refresh_token, <<>>, <<>>)
             ELSE LET resp == PostOutcome(http)
                  IN  StoreTokens(self, fsys, io,
                          [refresh_token |-> refresh_token.value, basic_auth |-> FALSE],
                          IF resp.kind = "raise" THEN resp ELSE tokens_of(resp.value))

\* A HubSpot refresh that trusts the response's refresh_token the way the
\* Google one does.
HubSpot_refresh_takes_response_token(self, fsys, dir, http, io) ==
    GoogleAuthManager_refresh_bearer_token(self, fsys, dir, http, io)

\* HubSpotAuthManager.refresh_bearer_token (keeps the refresh token it sent)
HubSpotAuthManager_refresh_bearer_token(self, fsys, dir, http, io) ==
    IF InPantsSandbox(dir)
    THEN RefreshResult(self, fsys, Return(None), <<>>, <<>>)
    ELSE LET refresh_token == ResolveRefreshToken(self, fsys)
             tokens_of(resp) ==
                 IF self.bearer_token_resp_key \notin DOMAIN resp
                 THEN Raise("KeyError")
                 ELSE Return([k \in {self.bearer_token_resp_key, self.refresh_token_resp_key} |->
                                 IF k = self.refresh_token_resp_key
                                 THEN refresh_token.value
                                 ELSE PyStr(resp[self.bearer_token_resp_key])])
         IN  IF refresh_token.kind = "raise"
             THEN RefreshResult(self, fsys, refresh_token, <<>>, <<>>)
             ELSE LET resp == PostOutcome(http)
                  IN  StoreTokens(self, fsys, io,
                          [refresh_token |-> refresh_token.value, basic_auth |-> FALSE],
                          IF resp.kind = "raise" THEN resp ELSE tokens_of(resp.value))

\* self.refresh_bearer_token(): dispatch on the instance's class.
refresh_bearer_token(self, fsys, dir, http, io) ==
    CASE self.class = "GoogleAuthManager" ->
            GoogleAuthManager_refresh_bearer_token(self, fsys, dir, http, io)
      [] self.class = "HubSpotAuthManager" ->
            HubSpotAuthManager_refresh_bearer_token(self, fsys, dir, http, io)
      [] OTHER -> AuthManager_refresh_bearer_token(self, fsys, dir, http, io)

\* ------------------------------------------------------- GoogleClient
\* Status codes the Drive API answers with.
ApiStatuses == {200, 308, 401, 403, 500}

\* HTTPStatus.UNAUTHORIZED
UNAUTHORIZED == 401

\* A loop that allows a second retry.
LoopRangeTwoRetries == 2 + 1

\* range(2): one attempt and one retry
LoopRange == 2

\* A check that also treats 403 Forbidden as a reason to re-authenticate.
IsUnauthorizedOrForbidden(status_code) == status_code \in {401, 403}

\* response.status_code == HTTPStatus.UNAUTHORIZED
IsUnauthorized(status_code) == status_code = UNAUTHORIZED

\* f"Bearer {token}"
BearerHeader(token) == Str("Bearer " \o PyStr(token)[2])

NoResponse == [seq |-> 0, status_code |-> 0]

\* The public request methods of GoogleClient; get_request is listed twice,
\* without and with content=True.
WrapperMethods ==
    {"get_request", "get_request_content", "post_request", "put_request",
     "patch_request", "delete_request"}

\* Who calls the wrapper: the upload tool (post_request) or another caller.
Callers == {"upload_file_google_drive", "other"}

\* The body of each wrapper after _request_with_reauth: an exception of the
\* loop propagates; response.raise_for_status(); then delete_request returns
\* the status code, get_request(content=True) the text and headers, and the
\* others response.json(), which raises when the body is not JSON.
\* ret is what the loop returned or raised.
WrapperOutcome(method, ret, json_ok) ==
    IF ret.kind = "raise" THEN Raise(ret.exc)
    ELSE IF raise_for_status(ret.response.status_code) THEN Raise("HTTPError")
    ELSE CASE method = "delete_request" -> Return(<<"int", ret.response.status_code>>)
           [] method = "get_request_content" -> Return(<<"dict", "text">>)
           [] OTHER -> IF json_ok THEN Return(<<"dict", "json">>)
                       ELSE Raise("JSONDecodeError")

\* Read of a local variable: UnboundLocalError when no assignment ran.
GetLocal(frame, name) ==
    IF name \in DOMAIN frame THEN Return(frame[name]) ELSE Raise("UnboundLocalError")

\* The exception classes of requests that derive from RequestException,
\* HTTPError aside.
RequestExceptions == {"ConnectionError", "JSONDecodeError"}

\* upload_file_google_drive from its try statement on.  post is the outcome
\* of client.post_request and status the status code of the response an
\* HTTPError carries.  `response` is bound only when post_request returned;
\* the last two handlers read it.
UploadOutcome(post, status) ==
    LET frame == IF post.kind = "return"
                 THEN [client |-> "client", response |-> post.value]
                 ELSE [client |-> "client"]
        handler(msg) ==
            LET resp == GetLocal(frame, "response")
            IN  IF resp.kind = "raise" THEN resp
                ELSE Return([http_code |-> 200, error_message |-> Str(msg)])
    IN  CASE post.kind = "return" ->
                Return([http_code |-> 200, error_message |-> None])
          [] post = Raise("HTTPError") ->
                Return([http_code |-> status,
                        error_message |-> Str("Upload failed with HTTP status")])
          [] post.kind = "raise" /\ post.value[2] \in RequestExceptions ->
                handler("Upload failed due to a network error")
          [] OTHER -> handler("An unexpected error occurred during upload")

\* The I/O outcomes a call on `self` can meet: an instance that found the
\* directory unwritable never touches the disk.
IoOutcomes(self, fsys) ==
    IF self._can_write_to_cache THEN WriteOutcomes(fsys, self.creds_path) ELSE {"ok"}

\* The answers a refresh call can meet: a call that returns or raises before
\* requests.post meets none.
RefreshHttp(self, fsys, dir) ==
    IF InPantsSandbox(dir) \/ ResolveRefreshToken(self, fsys).kind = "raise"
    THEN {HttpError} ELSE TokenHttp

\* The I/O outcomes a refresh call can meet: one whose POST raised never
\* reaches the cache file.
RefreshIo(self, fsys, http) ==
    IF PostOutcome(http).kind = "raise" THEN {"ok"} ELSE IoOutcomes(self, fsys)

\* --------------------------------------------------------------- state
VARIABLES
    auth_manager,   \* the AuthManager instance: its attributes
    fs,             \* the cache directory and the cache files
    cwd,            \* os.getcwd() of the process
    last,           \* the last store operation called and what it did
    hist,           \* bearer value of the latest update since construction
    headers,        \* GoogleClient.headers["Authorization"]
    pc,             \* where the current _request_with_reauth call stands
    attempts,       \* iterations of its loop completed
    response,       \* its local variable `response`
    retval,         \* what it returned or raised
    requests_log,   \* the HTTP requests it issued, in order
    refresh_log,    \* the refresh_bearer_token calls it made, in order
    wrapper,        \* the wrapper method being called, its caller and results
    environ,        \* os.environ of the process
    peer,           \* a second AuthManager instance (same process, or a second run)
    peer_fs         \* the file system of the second run

store_vars == <<auth_manager, fs, cwd, last, hist>>

client_vars == <<headers, pc, attempts, response, retval, requests_log, refresh_log,
                 wrapper, environ>>

vars == <<auth_manager, fs, cwd, last, hist, headers, pc, attempts, response,
          retval, requests_log, refresh_log, wrapper, environ, peer, peer_fs>>

pair_vars == <<peer, peer_fs>>

\* A process with a single manager.
NoPeer ==
    /\ peer = Unset
    /\ peer_fs = Unset

\* The record of a store call: the operation, its outcome, the POSTs it sent
\* to the token endpoint and the status answered, whether the sandbox marker
\* was in the working directory at the call, whether the call changed the
\* instance or the file system, the call's input (the key of a lookup, the
\* dict of an update, the body the token endpoint answered a refresh with),
\* the dicts handed to _update_server_creds_cache, and whether its write of
\* the cache file failed.
Called(op, result, posts, status, changed, arg, updates, write_failed) ==
    [op |-> op, result |-> result, posts |-> posts, status |-> status,
     sandbox |-> (cwd = SandboxCwd), changed |-> changed,
     arg |-> arg, updates |-> updates, write_failed |-> write_failed]

NoCall == [op |-> "none", result |-> Return(None), posts |-> <<>>, status |-> 0,
           sandbox |-> FALSE, changed |-> FALSE,
           arg |-> Unset, updates |-> <<>>, write_failed |-> FALSE]

\* Arguments of a direct _update_server_creds_cache call: Dict[str, str].
CredKeys == {"access_token", "refresh_token"}

CredDicts == UNION {[D -> StrTokens] : D \in SUBSET CredKeys}

\* Keys a caller can ask _get_cred_from_server_cache for.
LookupKeys == CredKeys \cup {"client_id"}

\* A record persisted by an earlier execution.
StaleCreds == [k \in CredKeys |-> Str("stale0")]

InitialFiles == {FileAbsent, FileGarbage, JsonDump(StaleCreds)}

NoWrapper == [method |-> "none", caller |-> "none", result |-> Unset, tool |-> Unset]

ClientIdle ==
    /\ wrapper = NoWrapper
    /\ headers = None
    /\ pc = "idle"
    /\ attempts = 0
    /\ response = NoResponse
    /\ retval = [kind |-> "none", response |-> NoResponse, exc |-> ""]
    /\ requests_log = <<>>
    /\ refresh_log = <<>>

\* The process starts with a cache directory in some state and constructs
\* one manager of class cls.
InitStore(classes) ==
    \E cls \in classes, ib \in InitialTokens, ir \in InitialTokens,
       d \in DirStates, f \in InitialFiles, probe_error \in BOOLEAN :
        /\ d = "missing" => f = FileAbsent
        /\ fs = [dir |-> d,
                 files |-> [p \in CacheFiles |->
                              IF p = TokenCacheFile(cls) THEN f ELSE FileAbsent]]
        /\ auth_manager = AuthManager__init__(cls, ib, ir, fs, probe_error)
        /\ last = NoCall
        /\ hist = Unset

\* A fresh store for the same system (same class, same cache file), as
\* get_google_client builds one per tool invocation.
Construct ==
    \E ib \in InitialTokens, ir \in InitialTokens, probe_error \in BOOLEAN :
        /\ auth_manager' = AuthManager__init__(auth_manager.class, ib, ir, fs, probe_error)
        /\ last' = Called("construct", Return(None), <<>>, 0, auth_manager' # auth_manager,
                        [probe_error |-> probe_error], <<>>, FALSE)
        /\ hist' = Unset
        /\ UNCHANGED <<fs, cwd>>
        /\ UNCHANGED client_vars
        /\ UNCHANGED pair_vars

\* A direct call of _update_server_creds_cache(creds).
Update ==
    \E creds \in CredDicts, io \in IoOutcomes(auth_manager, fs) :
        LET u == _update_server_creds_cache(auth_manager, creds, fs, io)
        IN  /\ auth_manager' = u.self
            /\ fs' = u.fs
            /\ last' = Called("update", u.outcome, <<>>, 0,
                              u.self # auth_manager \/ u.fs # fs,
                              creds, <<creds>>,
                              auth_manager._can_write_to_cache /\ io # "ok")
            /\ hist' = IF "access_token" \in DOMAIN creds
                       THEN creds["access_token"] ELSE hist
            /\ UNCHANGED cwd
            /\ UNCHANGED client_vars
            /\ UNCHANGED pair_vars

\* hist after a refresh: the bearer value of the dict it handed to the
\* update, when it reached the update with one.
HistAfterRefresh(r) ==
    IF r.updates # <<>> /\ "access_token" \in DOMAIN r.updates[1]
    THEN r.updates[1]["access_token"] ELSE hist

\* A direct call of refresh_bearer_token().
Refresh ==
    \E http \in RefreshHttp(auth_manager, fs, cwd) :
      \E io \in RefreshIo(auth_manager, fs, http) :
        LET r == refresh_bearer_token(auth_manager, fs, cwd, http, io)
        IN  /\ auth_manager' = r.self
            /\ fs' = r.fs
            /\ last' = Called("refresh", r.outcome, r.posts,
                              IF r.posts = <<>> \/ http.kind = "error"
                              THEN 0 ELSE http.status_code,
                              r.self # auth_manager \/ r.fs # fs,
                              IF r.posts = <<>> \/ http.kind = "error"
                              THEN Unset ELSE http.text,
                              r.updates,
                              r.updates # <<>> /\ auth_manager._can_write_to_cache
                                  /\ io # "ok")
            /\ hist' = HistAfterRefresh(r)
            /\ UNCHANGED cwd
            /\ UNCHANGED client_vars
            /\ UNCHANGED pair_vars

\* A call of get_bearer_token().
GetBearerToken ==
    /\ last' = Called("get_bearer_token", get_bearer_token(auth_manager, fs), <<>>, 0, FALSE,
                      Unset, <<>>, FALSE)
    /\ UNCHANGED <<auth_manager, fs, cwd, hist>>
    /\ UNCHANGED client_vars
    /\ UNCHANGED pair_vars

\* A call of _get_cred_from_server_cache(key).
GetCred ==
    \E key \in LookupKeys :
        /\ last' = Called("get_cred",
                          Return(_get_cred_from_server_cache(auth_manager, key, fs)),
                          <<>>, 0, FALSE, key, <<>>, FALSE)
        /\ UNCHANGED <<auth_manager, fs, cwd, hist>>
        /\ UNCHANGED client_vars
        /\ UNCHANGED pair_vars

\* The process changes its working directory.
Chdir ==
    \E d \in Cwds :
        /\ d # cwd
        /\ cwd' = d
        /\ UNCHANGED <<auth_manager, fs, last, hist>>
        /\ UNCHANGED client_vars
        /\ UNCHANGED pair_vars

\* The cache directory's permissions change under the running process.
Chmod ==
    /\ fs.dir # "missing"
    /\ fs' = [fs EXCEPT !.dir = IF fs.dir = "writable" THEN "readonly" ELSE "writable"]
    /\ UNCHANGED <<auth_manager, cwd, last, hist>>
    /\ UNCHANGED client_vars
    /\ UNCHANGED pair_vars

\* ---- Spec: the token store (construction, update, lookups)
Init ==
    /\ InitStore(Classes)
    /\ cwd = HomeCwd
    /\ environ = {}
    /\ NoPeer
    /\ ClientIdle

Next ==
    \/ Construct
    \/ Update
    \/ GetBearerToken
    \/ GetCred
    \/ Chmod

Spec == Init /\ [][Next]_vars

\* ---- SpecRefresh: refresh_bearer_token of the three classes
InitRefresh ==
    /\ InitStore(Classes)
    /\ cwd \in Cwds
    /\ environ = {}
    /\ NoPeer
    /\ ClientIdle

NextRefresh ==
    \/ Refresh
    \/ Chdir
    \/ Chmod

SpecRefresh == InitRefresh /\ [][NextRefresh]_vars

\* ---- SpecClient: GoogleClient._request_with_reauth over a GoogleAuthManager
\* What requests.request yields: 0 stands for an exception raised by the
\* transport (ConnectionError), otherwise the response's status code.
ApiOutcomes == ApiStatuses \cup {0}

NoReturn == [kind |-> "none", response |-> NoResponse, exc |-> ""]

Returned(resp) == [kind |-> "return", response |-> resp, exc |-> ""]

Raised(outcome) == [kind |-> "raise", response |-> NoResponse, exc |-> outcome.value[2]]

\* What the log keeps of one refresh_bearer_token call made by the loop.
RefreshEntry(r, http) ==
    [outcome |-> r.outcome,
     posts |-> Len(r.posts),
     status |-> IF r.posts = <<>> \/ http.kind = "error" THEN 0 ELSE http.status_code,
     pants |-> (in_pants_env(environ, cwd) \/ _in_pants_sandbox(environ)),
     access |-> IF r.posts # <<>> /\ http.kind = "response" /\ http.text[1] = "json"
                   /\ "access_token" \in DOMAIN http.text[2]
                THEN http.text[2]["access_token"] ELSE Unset]

\* GoogleClient.__init__ builds the GoogleAuthManager; headers hold no
\* Authorization entry yet.
InitClient ==
    /\ InitStore({"GoogleAuthManager"})
    /\ cwd \in Cwds
    /\ environ \in Environs
    /\ NoPeer
    /\ ClientIdle

\* A wrapper (get_request, post_request, ...) calls _request_with_reauth.
CallRequest ==
    /\ pc \in {"idle", "returned", "raised"}
    /\ \E m \in WrapperMethods, c \in Callers :
          /\ c = "upload_file_google_drive" => m = "post_request"
          /\ wrapper' = [method |-> m, caller |-> c, result |-> Unset, tool |-> Unset]
    /\ pc' = "loop"
    /\ attempts' = 0
    /\ response' = NoResponse
    /\ retval' = NoReturn
    /\ requests_log' = <<>>
    /\ refresh_log' = <<>>
    /\ UNCHANGED <<headers, auth_manager, fs, cwd, last, hist, environ>>
    /\ UNCHANGED pair_vars

\* One iteration of `for _ in range(2)` in _request_with_reauth: set the
\* Authorization header, issue the request, refresh on 401, else break; the
\* return after the loop is part of the last iteration.
LoopIteration ==
    /\ pc = "loop"
    /\ LET token == get_bearer_token(auth_manager, fs)
       IN  IF token.kind = "raise"
           THEN /\ pc' = "raised"
                /\ retval' = Raised(token)
                /\ UNCHANGED <<headers, attempts, response, requests_log, refresh_log,
                               auth_manager, fs, hist>>
           ELSE /\ headers' = BearerHeader(token.value)
                /\ \E api \in ApiOutcomes :
                    /\ requests_log' = Append(requests_log,
                           [authorization |-> headers', status_code |-> api])
                    /\ IF api = 0
                       THEN /\ pc' = "raised"
                            /\ retval' = Raised(Raise("ConnectionError"))
                            /\ UNCHANGED <<attempts, response, refresh_log,
                                           auth_manager, fs, hist>>
                       ELSE /\ response' = [seq |-> Len(requests_log'), status_code |-> api]
                            /\ IF IsUnauthorized(api)
                               THEN \E http \in RefreshHttp(auth_manager, fs, cwd),
                                       io \in IoOutcomes(auth_manager, fs) :
                                      LET r == refresh_bearer_token(auth_manager, fs, cwd, http, io)
                                      IN  /\ auth_manager' = r.self
                                          /\ fs' = r.fs
                                          /\ hist' = HistAfterRefresh(r)
                                          /\ refresh_log' = Append(refresh_log, RefreshEntry(r, http))
                                          /\ IF r.outcome.kind = "raise"
                                             THEN /\ pc' = "raised"
                                                  /\ retval' = Raised(r.outcome)
                                                  /\ UNCHANGED attempts
                                             ELSE /\ attempts' = attempts + 1
                                                  /\ IF attempts' >= LoopRange
                                                     THEN /\ pc' = "returned"
                                                          /\ retval' = Returned(response')
                                                     ELSE /\ pc' = "loop"
                                                          /\ UNCHANGED retval
                               ELSE /\ pc' = "returned"
                                    /\ retval' = Returned(response')
                                    /\ UNCHANGED <<attempts, refresh_log, auth_manager, fs, hist>>
    /\ IF pc' = "loop"
       THEN UNCHANGED wrapper
       ELSE \E json_ok \in IF retval'.kind = "return"
                               /\ ~raise_for_status(retval'.response.status_code)
                            THEN BOOLEAN ELSE {FALSE} :
              LET result == WrapperOutcome(wrapper.method, retval', json_ok)
                  status == IF retval'.kind = "return"
                            THEN retval'.response.status_code
                            ELSE IF refresh_log' = <<>> THEN 0
                            ELSE refresh_log'[Len(refresh_log')].status
              IN  wrapper' = [wrapper EXCEPT
                                !.result = result,
                                !.tool = IF wrapper.caller = "upload_file_google_drive"
                                         THEN UploadOutcome(result, status) ELSE Unset]
    /\ UNCHANGED <<cwd, last, environ>>
    /\ UNCHANGED pair_vars

ClientChdir ==
    /\ pc # "loop"
    /\ Chdir

NextClient ==
    \/ CallRequest
    \/ LoopIteration
    \/ ClientChdir

SpecClient == InitClient /\ [][NextClient]_vars

\* ---- SpecPair: two managers in one process, over the same directory
\* Constructor arguments of the managers of SpecPair and SpecTwin.
PairBearerTokens == {Str("init0"), None}

PairRefreshToken == Str("init0")

\* The dicts the managers of SpecPair are updated with: an access_token
\* (the first token of the pool, or the empty string), alone or with a
\* refresh_token of the same value.
PairCreds ==
    {d \in CredDicts : /\ "access_token" \in DOMAIN d
                       /\ d["access_token"] \in {Str(TokenPool[1]), Str("")}
                       /\ \A k \in DOMAIN d : d[k] = d["access_token"]}

\* The answers the token endpoint gives them: no answer, an error status, or
\* 200 with one of these dicts.
PairHttp ==
    {h \in TokenHttp : \/ h.kind = "error"
                       \/ h.status_code >= 400
                       \/ (h.status_code = 200 /\ h.text \in {JsonDump(d) : d \in PairCreds})}

\* Instance i of the process: 1 is auth_manager, 2 is peer.
Inst(i) == IF i = 1 THEN auth_manager ELSE peer

\* A GoogleAuthManager and a second manager: another GoogleAuthManager (same
\* cache file google_auth.json) or a HubSpotAuthManager (its own file).
InitPair ==
    /\ \E c2 \in {"GoogleAuthManager", "HubSpotAuthManager"},
          ib1 \in PairBearerTokens, ib2 \in {Str("init0")},
          d \in {"readonly", "writable"}, f \in InitialFiles :
          /\ fs = [dir |-> d,
                   files |-> [p \in CacheFiles |->
                                IF p = "google_auth.json" THEN f ELSE FileAbsent]]
          /\ auth_manager = AuthManager__init__("GoogleAuthManager", ib1,
                                                PairRefreshToken, fs, FALSE)
          /\ peer = AuthManager__init__(c2, ib2, PairRefreshToken, fs, FALSE)
    /\ peer_fs = Unset
    /\ last = NoCall
    /\ hist = Unset
    /\ cwd = HomeCwd
    /\ environ = {}
    /\ ClientIdle

\* Instance i gets the result of a call: the other instance is not touched.
SetInst(i, self) ==
    IF i = 1 THEN auth_manager' = self /\ UNCHANGED peer
    ELSE peer' = self /\ UNCHANGED auth_manager

\* Instance i calls _update_server_creds_cache(creds).
PairUpdate(i) ==
    \E creds \in PairCreds, io \in IoOutcomes(Inst(i), fs) :
        LET u == _update_server_creds_cache(Inst(i), creds, fs, io)
        IN  /\ SetInst(i, u.self)
            /\ fs' = u.fs
            /\ last' = Called("pair_update", u.outcome, <<>>, 0,
                              u.self # Inst(i) \/ u.fs # fs,
                              [who |-> i], <<creds>>,
                              Inst(i)._can_write_to_cache /\ io # "ok")
            /\ UNCHANGED <<cwd, hist, peer_fs>>
            /\ UNCHANGED client_vars

\* Instance i calls refresh_bearer_token().
PairRefresh(i) ==
    \E http \in RefreshHttp(Inst(i), fs, cwd) \cap PairHttp :
      \E io \in RefreshIo(Inst(i), fs, http) :
        LET r == refresh_bearer_token(Inst(i), fs, cwd, http, io)
        IN  /\ SetInst(i, r.self)
            /\ fs' = r.fs
            /\ last' = Called("pair_refresh", r.outcome, r.posts,
                              IF r.posts = <<>> \/ http.kind = "error"
                              THEN 0 ELSE http.status_code,
                              r.self # Inst(i) \/ r.fs # fs,
                              [who |-> i], r.updates,
                              r.updates # <<>> /\ Inst(i)._can_write_to_cache
                                  /\ io # "ok")
            /\ UNCHANGED <<cwd, hist, peer_fs>>
            /\ UNCHANGED client_vars

NextPair ==
    \/ \E i \in {1, 2} : PairUpdate(i)
    \/ \E i \in {1, 2} : PairRefresh(i)

SpecPair == InitPair /\ [][NextPair]_vars

\* ---- SpecTwin: two runs of one program side by side
\* The same manager is constructed with the same arguments in two runs
\* whose cache directories are in the same state but whose cache files hold
\* different contents; the runs then perform the same operations and the
\* token endpoint gives both the same answers.
InitTwin ==
    /\ \E cls \in Classes, ib \in PairBearerTokens, d \in DirStates,
          f1 \in InitialFiles, f2 \in InitialFiles, probe_error \in BOOLEAN :
          /\ d = "missing" => (f1 = FileAbsent /\ f2 = FileAbsent)
          /\ fs = [dir |-> d,
                   files |-> [p \in CacheFiles |->
                                IF p = TokenCacheFile(cls) THEN f1 ELSE FileAbsent]]
          /\ peer_fs = [dir |-> d,
                        files |-> [p \in CacheFiles |->
                                     IF p = TokenCacheFile(cls) THEN f2 ELSE FileAbsent]]
          /\ auth_manager = AuthManager__init__(cls, ib, PairRefreshToken, fs, probe_error)
          /\ peer = AuthManager__init__(cls, ib, PairRefreshToken, peer_fs, probe_error)
    /\ last = NoCall
    /\ hist = Unset
    /\ cwd = HomeCwd
    /\ environ = {}
    /\ ClientIdle

\* Both runs call refresh_bearer_token() and get the same answer.
TwinRefresh ==
    \E http \in RefreshHttp(auth_manager, fs, cwd) :
      \E io \in RefreshIo(auth_manager, fs, http) :
        LET r == refresh_bearer_token(auth_manager, fs, cwd, http, io)
            t == refresh_bearer_token(peer, peer_fs, cwd, http, io)
        IN  /\ auth_manager' = r.self
            /\ fs' = r.fs
            /\ peer' = t.self
            /\ peer_fs' = t.fs
            /\ last' = Called("twin_refresh", r.outcome, r.posts,
                              IF r.posts = <<>> \/ http.kind = "error"
                              THEN 0 ELSE http.status_code,
                              r.self # auth_manager \/ r.fs # fs,
                              [result |-> t.outcome, posts |-> t.posts],
                              r.updates,
                              r.updates # <<>> /\ auth_manager._can_write_to_cache
                                  /\ io # "ok")
            /\ UNCHANGED <<cwd, hist>>
            /\ UNCHANGED client_vars

\* Both runs call get_bearer_token().
TwinGetBearerToken ==
    /\ last' = Called("twin_get_bearer_token", get_bearer_token(auth_manager, fs),
                      <<>>, 0, FALSE,
                      [result |-> get_bearer_token(peer, peer_fs), posts |-> <<>>],
                      <<>>, FALSE)
    /\ UNCHANGED <<auth_manager, fs, cwd, hist, peer, peer_fs>>
    /\ UNCHANGED client_vars

NextTwin ==
    \/ TwinRefresh
    \/ TwinGetBearerToken

SpecTwin == InitTwin /\ [][NextTwin]_vars

\* ================================================================ claims
CallDone == pc \in {"returned", "raised"}

\* The loop's refresh number i reached the token endpoint and completed.
RefreshStored(i) ==
    /\ i <= Len(refresh_log)
    /\ refresh_log[i].outcome.kind = "return"
    /\ refresh_log[i].posts = 1

\* C1 (as claimed): in a finished _request_with_reauth call whose first
\* response was 401, refresh_bearer_token was invoked exactly once, whatever
\* the second response was.
C1_ExactlyOneRefresh ==
    (CallDone /\ requests_log # <<>> /\ requests_log[1].status_code = UNAUTHORIZED)
        => Len(refresh_log) = 1

\* C2: _request_with_reauth issues at most two HTTP requests, is finished once
\* the second one has been answered, and what it returns is the last response
\* received, also when that response is still 401.
C2_AtMostTwoRequests ==
    /\ Len(requests_log) <= 2
    /\ attempts <= 2
    /\ Len(requests_log) = 2 => CallDone
    /\ pc = "returned" =>
          /\ requests_log # <<>>
          /\ retval = Returned([seq |-> Len(requests_log),
                                status_code |-> requests_log[Len(requests_log)].status_code])

C2_Witness ==
    /\ pc = "returned"
    /\ Len(requests_log) = 2
    /\ retval.response.status_code = 401
    /\ \A i \in 1..2 : refresh_log[i].outcome.kind = "return"

\* C3: every request carries Authorization = "Bearer " + the bearer token
\* get_bearer_token yields when the request is issued: a request that no
\* refresh followed carries the token the store still yields, and a retry
\* issued after a 401 and a completed refresh carries the access_token that
\* refresh received and stored, not the token of the first attempt.
C3_RetryCarriesRefreshedToken ==
    /\ (pc = "returned" /\ Len(refresh_log) < Len(requests_log)) =>
          /\ get_bearer_token(auth_manager, fs).kind = "return"
          /\ requests_log[Len(requests_log)].authorization
                = Str("Bearer " \o get_bearer_token(auth_manager, fs).value[2])
          /\ headers = requests_log[Len(requests_log)].authorization
    /\ (Len(requests_log) = 2 /\ RefreshStored(1)) =>
          requests_log[2].authorization
              = Str("Bearer " \o PyStr(refresh_log[1].access)[2])

C3_Witness ==
    /\ Len(requests_log) = 2
    /\ RefreshStored(1)
    /\ refresh_log[1].access = Str("tokA")
    /\ requests_log[1].authorization = Str("Bearer init0")
    /\ requests_log[2].authorization = Str("Bearer tokA")

\* C4 (as claimed): get_bearer_token() called after a sequence of
\* _update_server_creds_cache calls returns the bearer value of the most
\* recent update that contained the bearer key.
C4_BearerIsLatestUpdate ==
    (last.op = "get_bearer_token" /\ hist # Unset) => last.result = Return(hist)

\* C5 (as claimed): with a writable cache directory, a store constructed
\* (with a non-empty initial bearer token, as get_google_client supplies)
\* after update({access_token: A, refresh_token: B}) persisted a non-empty A
\* yields A from get_bearer_token().
C5_RoundTrip ==
    LET text == fs.files[auth_manager.creds_path]
    IN  (/\ last.op = "construct"
         /\ auth_manager._can_write_to_cache
         /\ text[1] = "json"
         /\ DOMAIN text[2] = CredKeys
         /\ text[2]["access_token"] \in StrTokens \ {Str("")}
         /\ Truthy(auth_manager._in_memory_bearer_token))
            => get_bearer_token(auth_manager, fs) = Return(text[2]["access_token"])

\* C6 (as claimed): get_bearer_token() never fails and never returns
\* absence: it always yields a string.
C6_AlwaysAString ==
    last.op = "get_bearer_token" =>
        (last.result.kind = "return" /\ last.result.value[1] = "str")

\* C7: a refresh_bearer_token call made while the working directory marks the
\* sandbox sends nothing to the token endpoint, returns normally and leaves
\* the instance and the cache file as they were (all three classes).
C7_SandboxRefreshIsNoOp ==
    (last.op = "refresh" /\ last.sandbox) =>
        /\ last.posts = <<>>
        /\ ~last.changed
        /\ last.result = Return(None)

C7_Witness ==
    /\ last.op = "refresh"
    /\ last.sandbox
    /\ auth_manager.class = "HubSpotAuthManager"
    /\ Truthy(auth_manager._in_memory_refresh_token)

\* C8 (as claimed): a refresh answered with a non-2xx status raises and
\* leaves the in-memory tokens and the cache file unchanged.
C8_Non2xxRaisesNoUpdate ==
    (last.op = "refresh" /\ last.status # 0
        /\ ~(last.status >= 200 /\ last.status < 300)) =>
        /\ last.result.kind = "raise"
        /\ ~last.changed

\* C9 (as claimed): when a 401 triggers a refresh and the token endpoint
\* answers non-2xx, _request_with_reauth does not raise and returns the
\* 401 response.
C9_FailedRefreshReturns401 ==
    (/\ CallDone
     /\ refresh_log # <<>>
     /\ refresh_log[Len(refresh_log)].status # 0
     /\ ~(refresh_log[Len(refresh_log)].status >= 200
          /\ refresh_log[Len(refresh_log)].status < 300)) =>
        /\ pc = "returned"
        /\ retval.response.status_code = UNAUTHORIZED

\* C10: a response whose status is not 401 ends the call: no request follows
\* it, refresh_bearer_token is invoked only for 401 responses (never when the
\* first response is not 401), and that response is what is returned.
C10_Non401NeverRetried ==
    /\ \A i \in DOMAIN requests_log :
          requests_log[i].status_code # UNAUTHORIZED =>
              /\ i = Len(requests_log)
              /\ CallDone
              /\ Len(refresh_log) = i - 1
              /\ requests_log[i].status_code # 0 =>
                    /\ pc = "returned"
                    /\ retval = Returned([seq |-> i,
                                          status_code |-> requests_log[i].status_code])

C10_Witness ==
    /\ pc = "returned"
    /\ Len(requests_log) = 1
    /\ requests_log[1].status_code = 403
    /\ refresh_log = <<>>

\* A refresh call that reached the token endpoint, was answered 2xx and
\* completed normally.
RefreshSucceeded ==
    /\ last.op = "refresh"
    /\ last.posts # <<>>
    /\ last.status >= 200 /\ last.status < 300
    /\ last.result = Return(None)

\* A refresh call answered 2xx with a JSON object.
RefreshAnsweredJson ==
    /\ last.op = "refresh"
    /\ last.posts # <<>>
    /\ last.status >= 200 /\ last.status < 300
    /\ last.arg[1] = "json"

\* C11 (as claimed): after a successful refresh of the generic or the Google
\* manager, the stored refresh token is the response's refresh_token value
\* when the response carries one, and the refresh token that was sent (the
\* one held before the call) when it carries none (field missing or null).
C11_RefreshTokenRule ==
    (RefreshSucceeded /\ auth_manager.class \in {"AuthManager", "GoogleAuthManager"}) =>
        IF PyGet(last.arg[2], "refresh_token") # None
        THEN auth_manager._in_memory_refresh_token = last.arg[2]["refresh_token"]
        ELSE auth_manager._in_memory_refresh_token = last.posts[1].refresh_token

\* C12: after a successful HubSpot refresh the stored refresh token is the
\* one sent in the request, whether the response's refresh_token is missing,
\* null, equal or different; the same value is what the update was handed.
C12_HubSpotKeepsSentToken ==
    (RefreshSucceeded /\ auth_manager.class = "HubSpotAuthManager") =>
        /\ auth_manager._in_memory_refresh_token = last.posts[1].refresh_token
        /\ last.updates = <<[access_token |-> auth_manager._in_memory_bearer_token,
                             refresh_token |-> last.posts[1].refresh_token]>>

C12_Witness ==
    /\ RefreshSucceeded
    /\ auth_manager.class = "HubSpotAuthManager"
    /\ PyGet(last.arg[2], "refresh_token") = Str("tokA")
    /\ last.posts[1].refresh_token = Str("init0")
    /\ auth_manager._in_memory_refresh_token = Str("init0")

\* C13 (as claimed): a 2xx answer without a usable access_token (field
\* missing or null) makes refresh_bearer_token raise, in every class, and
\* nothing is handed to the update.
C13_MissingAccessTokenRaises ==
    (RefreshAnsweredJson /\ PyGet(last.arg[2], "access_token") = None) =>
        /\ last.result.kind = "raise"
        /\ last.updates = <<>>

\* C14 (as claimed): every value refresh_bearer_token hands to
\* _update_server_creds_cache, and so stores and writes, is a string; a key
\* without a value is left out.
C14_NoNoneHandedToUpdate ==
    last.op = "refresh" =>
        \A i \in DOMAIN last.updates :
            \A k \in DOMAIN last.updates[i] : last.updates[i][k][1] = "str"

\* C15 (as claimed): after a successful refresh answered with an
\* access_token string, the stored bearer token is that string and
\* get_bearer_token() returns it.
C15_BearerIsResponseAccessToken ==
    (RefreshSucceeded /\ PyGet(last.arg[2], "access_token") # None) =>
        /\ auth_manager._in_memory_bearer_token = last.arg[2]["access_token"]
        /\ get_bearer_token(auth_manager, fs) = Return(last.arg[2]["access_token"])

\* C16 (as claimed): outside the sandbox every refresh call sends one POST
\* to the token endpoint: with the stored refresh token, or, when the store
\* holds none, with the initial refresh token of the constructor.
C16_RefreshAlwaysSends ==
    (last.op = "refresh" /\ ~last.sandbox) =>
        /\ Len(last.posts) = 1
        /\ last.posts[1].refresh_token[1] = "str"
        /\ last.result # Raise("AttributeError")

\* The in-memory field a lookup key names; None for any other key.
InMemory(key) ==
    IF key = "access_token" THEN auth_manager._in_memory_bearer_token
    ELSE IF key = "refresh_token" THEN auth_manager._in_memory_refresh_token
    ELSE None

\* The pair the instance holds, as a cache record: a key without a value is
\* left out.
CurrentPair == [k \in {x \in CredKeys : InMemory(x) # None} |-> InMemory(k)]

\* C17: on an instance that found its cache directory not writable,
\* _update_server_creds_cache returns normally and writes nothing it could
\* read back: a later _get_cred_from_server_cache for a key that memory does
\* not hold returns None, whatever an earlier execution left in the file.
C17_UnwritableNoStaleRead ==
    ~auth_manager._can_write_to_cache =>
        /\ last.op = "update" => (last.result = Return(None) /\ ~last.write_failed)
        /\ (last.op = "get_cred" /\ InMemory(last.arg) = None) =>
              last.result = Return(None)

C17_Witness ==
    /\ ~auth_manager._can_write_to_cache
    /\ last.op = "get_cred"
    /\ last.arg = "refresh_token"
    /\ auth_manager._in_memory_refresh_token = None
    /\ hist = Str("tokA")
    /\ fs.files[auth_manager.creds_path] = JsonDump(StaleCreds)

\* C18: construction, lookups and updates return normally whatever the
\* probe, the read or the write of the cache file does; after an update
\* whose write failed, memory holds every value the update was given; a
\* lookup that meets an unreadable file returns None.
C18_CacheIoNeverPropagates ==
    /\ last.op \in {"construct", "update", "get_cred"} => last.result.kind = "return"
    /\ (last.op = "update" /\ last.write_failed) =>
          \A k \in DOMAIN last.arg : InMemory(k) = last.arg[k]
    /\ (last.op = "get_cred" /\ last.arg \notin CredKeys
           /\ fs.files[auth_manager.creds_path] = FileGarbage) =>
          last.result = Return(None)

C18_Witness ==
    /\ last.op = "update"
    /\ last.write_failed
    /\ last.result = Return(None)
    /\ last.arg = [access_token |-> Str("tokA")]
    /\ auth_manager._in_memory_bearer_token = Str("tokA")
    /\ fs.files[auth_manager.creds_path] # JsonDump(last.arg)

\* C19 (as claimed): after an update on a writable instance whose write
\* succeeded, the cache file holds the full pair the instance now holds in
\* memory, also when the update supplied one key only.
C19_FileHoldsFullPair ==
    (last.op = "update" /\ auth_manager._can_write_to_cache /\ ~last.write_failed) =>
        fs.files[auth_manager.creds_path] = JsonDump(CurrentPair)

\* C20 (as claimed): a lookup of access_token or refresh_token returns the
\* in-memory value when it is set; when it is not set and the directory was
\* found writable at construction, the value the cache file holds for the
\* key; otherwise None.
C20_LookupFallsBackToFile ==
    LET text == fs.files[auth_manager.creds_path]
    IN  (last.op = "get_cred" /\ last.arg \in CredKeys) =>
            last.result =
                Return(IF InMemory(last.arg) # None THEN InMemory(last.arg)
                       ELSE IF auth_manager._can_write_to_cache /\ IsFile(fs, auth_manager.creds_path)
                               /\ text[1] = "json"
                            THEN PyGet(text[2], last.arg)
                            ELSE None)

\* C21 (as claimed): the in-memory pair changes only in a refresh_bearer_token
\* call made outside the sandbox that was answered 2xx, and no step turns a
\* held token into None.
C21_PairChangesOnlyOn2xxRefresh ==
    [][ /\ (\/ auth_manager'._in_memory_bearer_token # auth_manager._in_memory_bearer_token
            \/ auth_manager'._in_memory_refresh_token # auth_manager._in_memory_refresh_token)
           => (/\ last'.op = "refresh"
               /\ ~last'.sandbox
               /\ last'.status >= 200 /\ last'.status < 300)
        /\ auth_manager._in_memory_bearer_token # None
           => auth_manager'._in_memory_bearer_token # None
        /\ auth_manager._in_memory_refresh_token # None
           => auth_manager'._in_memory_refresh_token # None ]_vars

C27_RefreshNeverFailsBeforePost ==
    (last.op = "refresh" /\ ~last.sandbox /\ last.result.kind = "raise") =>
        last.posts # <<>>

\* C29: the refresh token a HubSpotAuthManager holds (the non-empty one it
\* was constructed with) is never changed by a refresh, successful, failed
\* or sandboxed, whatever refresh_token the responses carry.
C29_HubSpotRefreshTokenFixed ==
    [][ (auth_manager.class = "HubSpotAuthManager"
            /\ Truthy(auth_manager._in_memory_refresh_token)) =>
          auth_manager'._in_memory_refresh_token = auth_manager._in_memory_refresh_token ]_vars

C29_Witness ==
    /\ auth_manager.class = "HubSpotAuthManager"
    /\ last.op = "refresh"
    /\ last.status = 400
    /\ last.result = Raise("HTTPError")
    /\ auth_manager._in_memory_bearer_token = Str("tokA")
    /\ auth_manager._in_memory_refresh_token = Str("init0")

\* The status of the last response the retry loop received.
LastStatus == requests_log[Len(requests_log)].status_code

C25_PantsEnvRefreshSendsNothing ==
    \A i \in DOMAIN refresh_log : refresh_log[i].pants => refresh_log[i].posts = 0

\* C26 (as claimed): upload_file_google_drive returns an UploadFileResponse
\* whatever client.post_request does: with the status and an error_message
\* for an HTTPError, with an error_message for any other exception.
C26_UploadNeverRaises ==
    (CallDone /\ wrapper.caller = "upload_file_google_drive") =>
        /\ wrapper.tool.kind = "return"
        /\ wrapper.result.kind = "raise" => wrapper.tool.value.error_message # None
        /\ (pc = "returned" /\ wrapper.result = Raise("HTTPError")) =>
              wrapper.tool.value.http_code = LastStatus

\* The exceptions a refresh can raise of its own: a missing attribute, the
\* transport, the status check, the JSON parse, a missing key.
RefreshExceptions ==
    {Raise(e) : e \in {"AttributeError", "ConnectionError", "HTTPError",
                       "JSONDecodeError", "KeyError"}}

====
